---- MODULE Spec2Model ----
(***************************************************************************)
(* Model of the remote build dispatch tool.                                *)
(*                                                                         *)
(*   tool = "enhanced" : cli/enhanced-build-service.js, build(options)     *)
(*   tool = "cli"      : the commander program, `build` command action     *)
(*                                                                         *)
(* One run of a build command is modelled as a state machine over `phase`; *)
(* the file system (config file, eas.json, temp files), the storage        *)
(* service and the CI dispatch endpoint are the environment.               *)
(***************************************************************************)
EXTENDS Integers, Sequences, FiniteSets, TLC

\* ------------------------------------------------------------------ bounds
\* Largest reading of the millisecond clock (Date.now()) in a run.
MaxClock == 1
\* Number of file ids the storage service may hand out (ID.unique()).
MaxFileId == 2

\* ------------------------------------------------------- JavaScript values
\* A JavaScript value: a type tag with one payload field per primitive type.
\* Strings are sequences of one-character strings, so that charAt, slice and
\* toUpperCase are computed as the code computes them.
JSVal(t, b, n, s) == [t |-> t, b |-> b, n |-> n, s |-> s]
Undef == JSVal("undefined", FALSE, 0, <<>>)
Null == JSVal("null", FALSE, 0, <<>>)
Bool(b) == JSVal("boolean", b, 0, <<>>)
Num(n) == JSVal("number", FALSE, n, <<>>)
Str(s) == JSVal("string", FALSE, 0, s)
\* An object literal, identified by n (its fields are not inspected here).
Obj(n) == JSVal("object", FALSE, n, <<>>)

\* ToBoolean: what `if (x)` and `!x` test.
Truthy(v) ==
  CASE v.t = "undefined" -> FALSE
    [] v.t = "null" -> FALSE
    [] v.t = "boolean" -> v.b
    [] v.t = "number" -> v.n # 0
    [] v.t = "string" -> Len(v.s) > 0
    [] OTHER -> TRUE

\* String.prototype.toUpperCase on the ASCII letters.
LowerCase == <<"a","b","c","d","e","f","g","h","i","j","k","l","m",
               "n","o","p","q","r","s","t","u","v","w","x","y","z">>
UpperCase == <<"A","B","C","D","E","F","G","H","I","J","K","L","M",
               "N","O","P","Q","R","S","T","U","V","W","X","Y","Z">>
ToUpperChar(c) ==
  IF \E i \in 1..Len(LowerCase) : LowerCase[i] = c
  THEN UpperCase[CHOOSE i \in 1..Len(LowerCase) : LowerCase[i] = c]
  ELSE c
toUpperCase(s) == [i \in 1..Len(s) |-> ToUpperChar(s[i])]
\* s.charAt(0): the empty string when s is empty.
charAt0(s) == IF Len(s) = 0 THEN <<>> ELSE <<s[1]>>
\* s.slice(1)
slice1(s) == IF Len(s) <= 1 THEN <<>> ELSE SubSeq(s, 2, Len(s))

\* Number.prototype.toString() of a non-negative integer: its decimal digits.
Digits == <<"0","1","2","3","4","5","6","7","8","9">>
RECURSIVE toString(_)
toString(n) ==
  IF n < 10 THEN <<Digits[n + 1]>>
  ELSE toString(n \div 10) \o <<Digits[(n % 10) + 1]>>

\* String literals of the source, as character sequences.
sRelease == <<"r","e","l","e","a","s","e">>
sDebug == <<"d","e","b","u","g">>
sApk == <<"a","p","k">>
sAab == <<"a","a","b">>
sIpa == <<"i","p","a">>
sInternal == <<"i","n","t","e","r","n","a","l">>
sStore == <<"s","t","o","r","e">>
sAssemble == <<"a","s","s","e","m","b","l","e">>
sBundle == <<"b","u","n","d","l","e">>
sCustomTask == <<"c","u","s","t","o","m","T","a","s","k">>
sTrue == <<"t","r","u","e">>
sYes == <<"y","e","s">>

\* ----------------------------------------------------------- build profiles
\* The `android` block of a profile entry: absent (or falsy), or an object
\* with the two fields the mapping reads.
Android(present, buildType, gradleCommand) ==
  [present |-> present, buildType |-> buildType, gradleCommand |-> gradleCommand]
NoAndroid == Android(FALSE, Undef, Undef)

\* A profile entry of eas.json (easConfig.build[profile]). defined = FALSE is
\* the value `undefined` (or any falsy entry): `!profileConfig` holds.
ProfileEntry(dc, dist, android, env, ai) ==
  [defined |-> TRUE, developmentClient |-> dc, distribution |-> dist,
   android |-> android, env |-> env, autoIncrement |-> ai]
MissingEntry ==
  [defined |-> FALSE, developmentClient |-> Undef, distribution |-> Undef,
   android |-> NoAndroid, env |-> Undef, autoIncrement |-> Undef]

\* Values the fields of a profile entry are drawn from: the documented ones
\* and values of unexpected type or content.
DevClientVals == {Undef, Bool(TRUE), Bool(FALSE), Str(sTrue), Num(1)}
DistributionVals == {Undef, Str(sStore)}
BuildTypeVals == {Undef, Str(sApk), Str(sAab), Str(sIpa), Num(1)}
GradleCommandVals == {Undef, Str(<<>>), Str(sCustomTask)}
EnvVals == {Undef, Obj(1)}
AutoIncrementVals == {Undef, Bool(TRUE), Bool(FALSE), Num(1), Str(sYes)}
AndroidVals ==
  {NoAndroid} \cup {Android(TRUE, bt, gc) : bt \in BuildTypeVals, gc \in GradleCommandVals}
ProfileEntries ==
  {ProfileEntry(dc, dist, a, env, ai) :
     dc \in DevClientVals, dist \in DistributionVals, a \in AndroidVals,
     env \in EnvVals, ai \in AutoIncrementVals}

\* The build configuration mapProfileToConfig starts from.
DefaultConfig ==
  [variant |-> Str(sRelease), buildType |-> Str(sApk), gradleCommand |-> Null,
   env |-> Obj(0), autoIncrement |-> Bool(FALSE), distribution |-> Str(sInternal)]

\* `config.buildType.toUpperCase()` in the log line of the build-type branch
\* is a TypeError unless the value is a string.
BuildTypeLogThrows(a) ==
  a.present /\ Truthy(a.buildType) /\ a.buildType.t # "string"

\* `if (profileConfig.developmentClient === true) config.variant = 'debug'`
\* A variant of it that tests truthiness instead of `=== true`.
MapVariantTruthy(profileConfig) ==
  IF Truthy(profileConfig.developmentClient) THEN Str(sDebug) ELSE DefaultConfig.variant
MapVariant(profileConfig) ==
  IF profileConfig.developmentClient = Bool(TRUE) THEN Str(sDebug) ELSE DefaultConfig.variant

\* A mapping that keeps the default build type when a command is declared.
MapBuildTypeUnlessCommand(profileConfig) ==
  IF profileConfig.android.present /\ Truthy(profileConfig.android.buildType)
     /\ ~Truthy(profileConfig.android.gradleCommand)
  THEN profileConfig.android.buildType
  ELSE DefaultConfig.buildType

\* `if (profileConfig.android) { if (profileConfig.android.buildType) ... }`
MapBuildType(profileConfig) ==
  IF profileConfig.android.present /\ Truthy(profileConfig.android.buildType)
  THEN profileConfig.android.buildType
  ELSE DefaultConfig.buildType

\* `if (profileConfig.android) { ... if (profileConfig.android.gradleCommand) ... }`
MapGradleCommand(profileConfig) ==
  IF profileConfig.android.present /\ Truthy(profileConfig.android.gradleCommand)
  THEN profileConfig.android.gradleCommand
  ELSE DefaultConfig.gradleCommand

\* mapProfileToConfig(profile, profileConfig): the configuration returned, or
\* threw = TRUE when an exception leaves the function.
mapProfileToConfig(profile, profileConfig) ==
  IF ~profileConfig.defined THEN [threw |-> FALSE, config |-> DefaultConfig]
  ELSE
    [threw |-> BuildTypeLogThrows(profileConfig.android),
     config |->
       [variant |-> MapVariant(profileConfig),
        distribution |-> IF Truthy(profileConfig.distribution)
                         THEN profileConfig.distribution
                         ELSE DefaultConfig.distribution,
        buildType |-> MapBuildType(profileConfig),
        gradleCommand |-> MapGradleCommand(profileConfig),
        env |-> IF Truthy(profileConfig.env)
                THEN profileConfig.env ELSE DefaultConfig.env,
        autoIncrement |-> IF profileConfig.autoIncrement = Bool(TRUE)
                          THEN Bool(TRUE) ELSE DefaultConfig.autoIncrement]]

\* Variants of getGradleCommand: one that does not capitalize the variant,
\* one that lets the build type decide before the explicit command.
getGradleCommandLower(config) ==
  IF Truthy(config.gradleCommand) THEN config.gradleCommand
  ELSE IF config.buildType = Str(sAab)
       THEN Str(sBundle \o config.variant.s)
       ELSE Str(sAssemble \o config.variant.s)
getGradleCommandBundleFirst(config) ==
  LET variantCapitalized ==
        toUpperCase(charAt0(config.variant.s)) \o slice1(config.variant.s)
  IN IF config.buildType = Str(sAab) THEN Str(sBundle \o variantCapitalized)
     ELSE IF Truthy(config.gradleCommand) THEN config.gradleCommand
     ELSE Str(sAssemble \o variantCapitalized)

\* getGradleCommand(config)
getGradleCommand(config) ==
  IF Truthy(config.gradleCommand) THEN config.gradleCommand
  ELSE
    LET variantCapitalized ==
          toUpperCase(charAt0(config.variant.s)) \o slice1(config.variant.s)
    IN IF config.buildType = Str(sAab)
       THEN Str(sBundle \o variantCapitalized)
       ELSE Str(sAssemble \o variantCapitalized)

\* ---------------------------------------------------------------- packaging
\* String.prototype.split(sep) for a one-character separator.
RECURSIVE split(_, _)
split(s, sep) ==
  IF \A i \in 1..Len(s) : s[i] # sep THEN <<s>>
  ELSE LET k == CHOOSE i \in 1..Len(s) : s[i] = sep /\ \A j \in 1..(i - 1) : s[j] # sep
       IN <<SubSeq(s, 1, k - 1)>> \o split(SubSeq(s, k + 1, Len(s)), sep)

\* String.prototype.trim(): white space removed at both ends.
WhiteSpace == {" ", "\t", "\r", "\n"}
RECURSIVE trimStart(_)
trimStart(s) ==
  IF s # <<>> /\ Head(s) \in WhiteSpace THEN trimStart(Tail(s)) ELSE s
RECURSIVE trimEnd(_)
trimEnd(s) ==
  IF s # <<>> /\ s[Len(s)] \in WhiteSpace THEN trimEnd(SubSeq(s, 1, Len(s) - 1)) ELSE s
trim(s) == trimEnd(trimStart(s))
startsWith(s, c) == s # <<>> /\ Head(s) = c
endsWith(s, c) == s # <<>> /\ s[Len(s)] = c

\* Array.prototype.filter and map, for the two uses in packageProject.
RECURSIVE FilterPatternLines(_)
FilterPatternLines(lines) ==
  IF lines = <<>> THEN <<>>
  ELSE IF Head(lines) # <<>> /\ ~startsWith(Head(lines), "#")
       THEN <<Head(lines)>> \o FilterPatternLines(Tail(lines))
       ELSE FilterPatternLines(Tail(lines))
\* A map step that leaves directory lines as they are.
DirectoryGlobKeepsLine(line) == line
DirectoryGlob(line) == IF endsWith(line, "/") THEN line \o <<"*","*">> ELSE line

\* The patterns read from the content of .buildignore:
\* split('\n'), trim, drop blank and '#' lines, append '**' to 'dir/'.
ParseBuildIgnore(content) ==
  LET lines == split(content, "\n")
      trimmed == [i \in 1..Len(lines) |-> trim(lines[i])]
      kept == FilterPatternLines(trimmed)
  IN [i \in 1..Len(kept) |-> DirectoryGlob(kept[i])]

\* <project>/.buildignore: absent, or a file with this content.
BuildIgnore(exists, content) == [exists |-> exists, content |-> content]
NoBuildIgnore == BuildIgnore(FALSE, <<>>)

\* The built-in excludes of packageProject.
BuiltinExcludes ==
  <<<<"n","o","d","e","_","m","o","d","u","l","e","s","/","*","*">>,
    <<".","g","i","t","/","*","*">>,
    <<".","e","x","p","o","/","*","*">>,
    <<"d","i","s","t","/","*","*">>,
    <<"b","u","i","l","d","/","*","*">>,
    <<".","v","s","c","o","d","e","/","*","*">>,
    <<"*",".","l","o","g">>,
    <<"a","n","d","r","o","i","d","/","a","p","p","/","b","u","i","l","d","/","*","*">>,
    <<"a","n","d","r","o","i","d","/",".","g","r","a","d","l","e","/","*","*">>,
    <<"a","n","d","r","o","i","d","/","b","u","i","l","d","/","*","*">>,
    <<"i","o","s","/","b","u","i","l","d","/","*","*">>,
    <<"i","o","s","/","P","o","d","s","/","*","*">>>>

\* let buildIgnorePatterns: [] unless .buildignore exists.
BuildIgnorePatterns(ignoreFile) ==
  IF ignoreFile.exists THEN ParseBuildIgnore(ignoreFile.content) ELSE <<>>

\* const defaultExcludes = buildIgnorePatterns.length > 0 ? buildIgnorePatterns : [...]
DefaultExcludes(ignoreFile) ==
  IF Len(BuildIgnorePatterns(ignoreFile)) > 0
  THEN BuildIgnorePatterns(ignoreFile)
  ELSE BuiltinExcludes

\* A concatenation that puts the caller's patterns first.
AllExcludesCallerFirst(ignoreFile, callerPatterns) ==
  callerPatterns \o DefaultExcludes(ignoreFile)
\* const allExcludes = [...defaultExcludes, ...excludePatterns]
AllExcludes(ignoreFile, callerPatterns) == DefaultExcludes(ignoreFile) \o callerPatterns

\* One path segment against one pattern segment: '*' stands for any run of
\* characters (dot: true, so a leading dot is matched too).
RECURSIVE SegMatch(_, _)
SegMatch(p, s) ==
  IF p = <<>> THEN s = <<>>
  ELSE IF Head(p) = "*"
       THEN SegMatch(Tail(p), s) \/ (s # <<>> /\ SegMatch(p, Tail(s)))
       ELSE s # <<>> /\ Head(p) = Head(s) /\ SegMatch(Tail(p), Tail(s))

\* Pattern segments against path segments: a '**' segment stands for any
\* number of segments; as the last segment it needs at least one.
RECURSIVE MatchSegs(_, _)
MatchSegs(ps, fs) ==
  IF ps = <<>> THEN fs = <<>>
  ELSE IF Head(ps) = <<"*","*">>
       THEN IF Len(ps) = 1 THEN fs # <<>>
            ELSE \E k \in 0..Len(fs) : MatchSegs(Tail(ps), SubSeq(fs, k + 1, Len(fs)))
       ELSE fs # <<>> /\ SegMatch(Head(ps), Head(fs)) /\ MatchSegs(Tail(ps), Tail(fs))

\* Whether a glob pattern matches a path relative to cwd.
GlobMatch(pattern, path) == MatchSegs(split(pattern, "/"), split(path, "/"))

\* The `ignore` option: a path is left out when one of the patterns matches
\* that path itself.
Ignored(path, excludes) == \E i \in 1..Len(excludes) : GlobMatch(excludes[i], path)

\* archive.glob('**/*', {cwd: projectPath, ignore: allExcludes, dot: true}):
\* the files of the tree the glob yields.
GlobFiles(projectFiles, excludes) ==
  {f \in projectFiles : GlobMatch(<<"*","*","/","*">>, f) /\ ~Ignored(f, excludes)}

\* The names the commander program filters out of the project's top level.
CliExclude ==
  {<<"n","o","d","e","_","m","o","d","u","l","e","s">>,
   <<".","g","i","t">>,
   <<".","e","x","p","o">>,
   <<"a","n","d","r","o","i","d">>,
   <<"i","o","s">>,
   <<".","g","r","a","d","l","e">>,
   <<"t","e","s","t",".","t","a","r",".","g","z">>,
   <<"t","e","s","t","2",".","t","a","r",".","g","z">>}
\* readdirSync(projectPath) filtered, then tar.create of those entries: every
\* file under a top-level entry that is kept.
CliFiles(projectFiles) ==
  {f \in projectFiles : split(f, "/")[1] \notin CliExclude}

\* The orders in which a walk may yield a set of files: neither program
\* sorts the entries.
WalkOrders(S) ==
  {o \in [1..Cardinality(S) -> S] : \A i, j \in 1..Cardinality(S) : i # j => o[i] # o[j]}

\* Project files used as inputs.
fAppJs == <<"A","p","p",".","j","s">>
fNodeModule == <<"n","o","d","e","_","m","o","d","u","l","e","s","/","a",".","j","s">>
fGitHead == <<".","g","i","t","/","H","E","A","D">>
fAndroidSrc == <<"a","n","d","r","o","i","d","/","a","p","p","/","M","a","i","n",".","j","a","v","a">>
fAndroidBuild == <<"a","n","d","r","o","i","d","/","b","u","i","l","d","/","o",".","a","p","k">>
fIosPodfile == <<"i","o","s","/","P","o","d","f","i","l","e">>
fDebugLog == <<"d","e","b","u","g",".","l","o","g">>
fLogDirFile == <<"x",".","l","o","g","/","i","n",".","t","x","t">>
fSecret == <<"s","e","c","r","e","t","/","k","e","y",".","t","x","t">>
fSrcIndex == <<"s","r","c","/","i","n","d","e","x",".","j","s">>
\* Project trees: dependency and version-control directories, the native
\* projects, and directories named by plain or wildcard patterns.
TreeDeps == {fAppJs, fNodeModule, fGitHead}
TreeNative == {fAppJs, fAndroidSrc, fAndroidBuild, fIosPodfile}
TreeMisc == {fAppJs, fDebugLog, fLogDirFile, fSecret}
TreeSources == {fAppJs, fSrcIndex}

\* Contents of .buildignore used as inputs.
ignEmpty == <<>>
ignCommentsOnly == <<"#"," ","l","o","c","a","l","\n","\n"," "," ","\n">>
ignSecretDir == <<"s","e","c","r","e","t","/","\n">>
ignSecretName == <<"#"," ","k","e","y","s","\n","s","e","c","r","e","t","\n">>
ignLogs == <<" ","*",".","l","o","g"," ","\n","n","o","d","e","_","m","o","d","u","l","e","s","/","\n">>
BuildIgnoreFiles ==
  {NoBuildIgnore} \cup
  {BuildIgnore(TRUE, c) : c \in {ignEmpty, ignCommentsOnly, ignSecretDir, ignSecretName, ignLogs}}
\* Caller-supplied patterns (the excludePatterns parameter).
pSecretGlob == <<"s","e","c","r","e","t","/","*","*">>
CallerPatterns == {<<>>, <<pSecretGlob>>}

\* ------------------------------------------------------------ environment
\* The six fields of ~/.build-service.json.
ConfigFields ==
  {"appwriteEndpoint", "appwriteProject", "appwriteKey",
   "appwriteBucket", "githubToken", "githubRepo"}
\* The stored value of each field when it is set.
sEndpoint == <<"h","t","t","p","s",":","/","/","a","w">>
sProject == <<"p","r","j">>
sKey == <<"k","e","y","1","2","3","4">>
sBucket == <<"b","k","t">>
sToken == <<"g","h","p","_","9","8","7","6">>
sRepo == <<"o","/","r">>
FullConfig ==
  [f \in ConfigFields |->
     CASE f = "appwriteEndpoint" -> Str(sEndpoint)
       [] f = "appwriteProject" -> Str(sProject)
       [] f = "appwriteKey" -> Str(sKey)
       [] f = "appwriteBucket" -> Str(sBucket)
       [] f = "githubToken" -> Str(sToken)
       [] OTHER -> Str(sRepo)]
\* `let config = {}`: no field set.
EmptyConfig == [f \in ConfigFields |-> Undef]
\* The configuration file: absent, not JSON, or a JSON object.
ConfigFile(state, fields) == [state |-> state, fields |-> fields]
ConfigFiles ==
  {ConfigFile("absent", EmptyConfig), ConfigFile("unparseable", EmptyConfig),
   ConfigFile("parsed", FullConfig)}
  \cup {ConfigFile("parsed", [FullConfig EXCEPT ![f] = Undef]) : f \in ConfigFields}

\* Profile names: the empty name stands for an absent options.profile.
ProfileNames == {"production", "development"}
NoName == ""
\* <project>/eas.json: absent, not JSON, or a document whose `build`
\* collection (when it has one) holds one entry under `name`.
EasFile(state, hasBuild, name, entry) ==
  [state |-> state, hasBuild |-> hasBuild, name |-> name, entry |-> entry]
NoEasFile == EasFile("absent", FALSE, NoName, MissingEntry)
BadEasFile == EasFile("unparseable", FALSE, NoName, MissingEntry)
\* Entries used when the whole pipeline is explored: the spec's scenarios and
\* one entry of each unexpected kind.
PipelineEntries ==
  {ProfileEntry(Undef, Undef, NoAndroid, Undef, Undef),
   ProfileEntry(Bool(TRUE), Undef, NoAndroid, Undef, Undef),
   ProfileEntry(Undef, Undef, Android(TRUE, Str(sAab), Undef), Undef, Undef),
   ProfileEntry(Undef, Undef, Android(TRUE, Str(sApk), Str(sCustomTask)), Undef, Undef),
   ProfileEntry(Undef, Undef, Android(TRUE, Str(sIpa), Undef), Undef, Undef),
   ProfileEntry(Undef, Str(sStore), Android(TRUE, Num(1), Undef), Obj(1), Bool(TRUE))}
PipelineEasFiles ==
  {NoEasFile, BadEasFile, EasFile("parsed", FALSE, NoName, MissingEntry)}
  \cup {EasFile("parsed", TRUE, n, e) : n \in ProfileNames, e \in PipelineEntries}

\* The options object the enhanced tool's argument loop fills; the empty
\* name stands for null and for undefined (both falsy).
Options(path, profile) == [path |-> path, profile |-> profile]
\* A command line that parses to the options o.
ArgsOf(o) ==
  <<"build">>
  \o (IF o.path = NoName THEN <<>> ELSE <<"--path", o.path>>)
  \o (IF o.profile = NoName THEN <<"--profile">> ELSE <<"--profile", o.profile>>)
\* Nothing printed by the config command.
NotShown == [printed |-> FALSE, fields |-> EmptyConfig]

\* A path under os.tmpdir(): a fixed prefix, the decimal time stamp, a suffix.
Path(prefix, stamp, suffix) == [prefix |-> prefix, stamp |-> stamp, suffix |-> suffix]
NoPath == Path("", <<>>, "")
\* The download URL template: `${endpoint}/storage/buckets/${bucket}/files/${id}/download`
\* with `?project=${project}` appended by the commander program only.
Url(endpoint, bucket, fileId, project) ==
  [endpoint |-> endpoint, bucket |-> bucket, fileId |-> fileId, project |-> project]
NoUrl == Url(Undef, Undef, 0, Undef)
FileIds == 1..MaxFileId
\* The commander program's option defaults (--platform, --variant).
CliPlatform == "android"
CliVariant == Str(sRelease)

VARIABLES
  tool,        \* which program runs: "enhanced" or "cli"
  options,     \* parsed command line: [profile]
  cfgFile,     \* ~/.build-service.json
  easFile,     \* <project>/eas.json
  rootExists,  \* whether the project path is an existing directory
  tree,        \* files of the project, as paths relative to its root
  buildIgnore, \* <project>/.buildignore
  excludePatterns, \* the excludePatterns argument of packageProject
  clock,       \* last reading of Date.now()
  files,       \* archive files existing under os.tmpdir()
  dirs,        \* temporary directories existing under os.tmpdir()
  bucket,      \* file ids stored in the storage bucket
  phase,       \* phase of the run
  pkg,         \* packaging: "idle", "running", "ok", "failed"
  config,      \* const config / let config
  buildConfig, \* const buildConfig: [set, config]
  packagePath, \* const packagePath / archivePath
  file,        \* file.$id of the upload, 0 before
  sourceUrl,   \* const sourceUrl
  buildId,     \* const buildId
  uploadCalls, \* number of storage.createFile calls
  dispatched,  \* payloads handed to the dispatch endpoint, in order
  failure,     \* why the run failed, "none" otherwise
  trail,       \* phases entered, in order
  allExcludes, \* const allExcludes of packageProject
  archive,     \* entries of the archive written, in order
  report,      \* ids printed on the console: [buildId, fileId]
  other,       \* a second invocation of the same program on the same project
  args,        \* process.argv.slice(2)
  shown,       \* what the config command printed
  buildIgnorePatterns \* let buildIgnorePatterns of packageProject

vars ==
  <<tool, options, cfgFile, easFile, rootExists, clock, files, dirs, bucket, phase,
    pkg, config, buildConfig, packagePath, file, sourceUrl, buildId, uploadCalls,
    dispatched, failure, trail, tree, buildIgnore, excludePatterns, allExcludes,
    archive, report, other, args, shown, buildIgnorePatterns>>

envVars ==
  <<tool, options, cfgFile, easFile, rootExists, tree, buildIgnore, excludePatterns,
    args>>

\* The second invocation: its phase and the locals that name shared things.
OtherRun(ph, pk, path, id, entries, sent, why) ==
  [phase |-> ph, pkg |-> pk, packagePath |-> path, buildId |-> id,
   archive |-> entries, file |-> 0, payloadId |-> sent, failure |-> why]
\* No second invocation.
OtherOff == OtherRun("Off", "idle", NoPath, <<>>, <<>>, <<>>, "none")
\* A second invocation that has loaded the same configuration and profile.
OtherReady == OtherRun("Packaging", "idle", NoPath, <<>>, <<>>, <<>>, "none")

\* State of a run before its first statement.
InitRun ==
  /\ clock = 0
  /\ files = {}
  /\ dirs = {}
  /\ bucket = {}
  /\ phase = "Idle"
  /\ pkg = "idle"
  /\ config = EmptyConfig
  /\ buildConfig = [set |-> FALSE, config |-> DefaultConfig]
  /\ packagePath = NoPath
  /\ file = 0
  /\ sourceUrl = NoUrl
  /\ buildId = <<>>
  /\ uploadCalls = 0
  /\ dispatched = <<>>
  /\ failure = "none"
  /\ trail = <<"Idle">>
  /\ allExcludes = <<>>
  /\ archive = <<>>
  /\ report = [buildId |-> <<>>, fileId |-> 0]
  /\ other = OtherOff
  /\ shown = NotShown
  /\ buildIgnorePatterns = <<>>

\* Any tool, configuration file and project, with the pipeline's profile entries.
Init ==
  /\ tool \in {"enhanced", "cli"}
  /\ options \in {Options(NoName, n) : n \in {NoName, "development"}}
  /\ args = ArgsOf(options)
  /\ cfgFile \in ConfigFiles
  /\ easFile \in PipelineEasFiles
  /\ rootExists \in BOOLEAN
  /\ tree = TreeDeps
  /\ buildIgnore = NoBuildIgnore
  /\ excludePatterns = <<>>
  /\ InitRun

\* The enhanced tool on a complete configuration, over every profile entry.
InitProfiles ==
  /\ tool = "enhanced"
  /\ options = Options(NoName, NoName)
  /\ args = ArgsOf(options)
  /\ cfgFile = ConfigFile("parsed", FullConfig)
  /\ easFile \in {EasFile("parsed", TRUE, "production", e) : e \in ProfileEntries}
  /\ rootExists = TRUE
  /\ tree = TreeDeps
  /\ buildIgnore = NoBuildIgnore
  /\ excludePatterns = <<>>
  /\ InitRun

\* packageProject(projectPath, excludePatterns) called on its own, and the
\* packaging step of the commander program: every project tree, .buildignore
\* and caller pattern list.
InitPackage ==
  /\ tool \in {"enhanced", "cli"}
  /\ options = Options(NoName, NoName)
  /\ args = ArgsOf(options)
  /\ cfgFile = ConfigFile("parsed", FullConfig)
  /\ easFile = NoEasFile
  /\ rootExists = TRUE
  /\ tree \in {TreeDeps, TreeNative, TreeMisc, TreeSources}
  /\ buildIgnore \in BuildIgnoreFiles
  /\ excludePatterns \in (IF tool = "enhanced" THEN CallerPatterns ELSE {<<>>})
  /\ clock = 0
  /\ files = {}
  /\ dirs = {}
  /\ bucket = {}
  /\ phase = "Packaging"
  /\ pkg = "idle"
  /\ config = FullConfig
  /\ buildConfig = [set |-> TRUE, config |-> DefaultConfig]
  /\ packagePath = NoPath
  /\ file = 0
  /\ sourceUrl = NoUrl
  /\ buildId = <<>>
  /\ uploadCalls = 0
  /\ dispatched = <<>>
  /\ failure = "none"
  /\ trail = <<"Packaging">>
  /\ allExcludes = <<>>
  /\ archive = <<>>
  /\ report = [buildId |-> <<>>, fileId |-> 0]
  /\ other = OtherOff
  /\ shown = NotShown
  /\ buildIgnorePatterns = <<>>

\* Enter phase p; a failure records its cause.
Goto(p, why) ==
  /\ phase' = p
  /\ trail' = Append(trail, p)
  /\ failure' = why

\* ---------------------------------------------------------------- actions
\* The validation of the commander program: every field is truthy.
ConfigComplete(c) == \A f \in ConfigFields : Truthy(c[f])

\* loadConfig() and what follows it up to the next phase.
\*   enhanced: process.exit(1) when the file is absent, a SyntaxError reaches
\*             build()'s catch when it is not JSON; no field is inspected.
\*   cli:      config stays {} when the file is absent; then the six fields
\*             are validated.
LoadConfig ==
  /\ phase = "Idle"
  /\ IF cfgFile.state = "unparseable"
     THEN /\ Goto("Failed", "ConfigParseError")
          /\ UNCHANGED config
     ELSE IF tool = "enhanced"
     THEN IF cfgFile.state = "absent"
          THEN /\ Goto("Failed", "ConfigNotFound")
               /\ UNCHANGED config
          ELSE /\ config' = cfgFile.fields
               /\ Goto("Resolving", "none")
     ELSE /\ config' = cfgFile.fields
          /\ IF ConfigComplete(config')
             THEN Goto("Packaging", "none")
             ELSE Goto("Failed", "ConfigMissing")
  /\ UNCHANGED <<envVars, other, shown, buildIgnorePatterns,
                 clock, files, dirs, bucket, pkg, buildConfig, packagePath,
                 file, sourceUrl, buildId, uploadCalls, dispatched, allExcludes,
                 archive, report>>

\* options.profile || 'production'
RequestedProfile == IF options.profile = NoName THEN "production" ELSE options.profile

\* A lookup that takes the document's entry whatever its name.
ProfileLookupAnyName(eas, profile) ==
  IF eas.state = "parsed" /\ eas.hasBuild THEN eas.entry ELSE MissingEntry

\* loadEasConfig(projectPath) followed by easConfig?.build?.[profile]:
\* null for an absent or unparseable file, so the lookup is undefined.
ProfileLookup(eas, profile) ==
  IF eas.state = "parsed" /\ eas.hasBuild /\ eas.name = profile
  THEN eas.entry
  ELSE MissingEntry

\* Resolving: the profile entry is looked up and mapped; a TypeError thrown
\* by the mapping reaches build()'s catch.
Resolve ==
  /\ phase = "Resolving"
  /\ LET r == mapProfileToConfig(RequestedProfile, ProfileLookup(easFile, RequestedProfile))
     IN IF r.threw
        THEN /\ Goto("Failed", "TypeError")
             /\ UNCHANGED buildConfig
        ELSE /\ buildConfig' = [set |-> TRUE, config |-> r.config]
             /\ Goto("Packaging", "none")
  /\ UNCHANGED <<envVars, other, shown, buildIgnorePatterns,
                 clock, files, dirs, bucket, pkg, config, packagePath,
                 file, sourceUrl, buildId, uploadCalls, dispatched, allExcludes,
                 archive, report>>

\* The archive path of each tool for a clock reading t.
EnhancedPath(t) == Path("build-", toString(t), ".tar.gz")
CliTempDir(t) == Path("build-service-", toString(t), "")
CliPath(t) == Path("build-service-", toString(t), "/project.tar.gz")

\* What the project path holds: nothing when it does not exist.
ProjectFiles == IF rootExists THEN tree ELSE {}
IgnoreFile == IF rootExists THEN buildIgnore ELSE NoBuildIgnore

\* The synchronous start of packaging.
\*   enhanced: packageProject reads the clock and opens the output stream,
\*             which creates the file; a stream that cannot be opened emits
\*             an 'error' no handler listens to, which ends the process.
\*   cli:      reads the clock for the build id, creates the temporary
\*             directory, and lists the project root (ENOENT when missing).
PackageStart ==
  /\ phase = "Packaging"
  /\ pkg = "idle"
  /\ \E t \in clock..MaxClock, opened \in BOOLEAN :
       /\ clock' = t
       /\ IF tool = "enhanced"
          THEN /\ packagePath' = EnhancedPath(t)
               /\ buildIgnorePatterns' = BuildIgnorePatterns(IgnoreFile)
               /\ allExcludes' = AllExcludes(IgnoreFile, excludePatterns)
               /\ UNCHANGED <<dirs, buildId>>
               /\ IF opened
                  THEN /\ files' = files \cup {EnhancedPath(t)}
                       /\ pkg' = "running"
                       /\ UNCHANGED <<phase, trail, failure>>
                  ELSE /\ pkg' = "failed"
                       /\ Goto("Failed", "UncaughtStreamError")
                       /\ UNCHANGED files
          ELSE /\ opened
               /\ buildId' = toString(t)
               /\ dirs' = dirs \cup {CliTempDir(t)}
               /\ packagePath' = CliPath(t)
               /\ UNCHANGED <<files, allExcludes, buildIgnorePatterns>>
               /\ IF rootExists
                  THEN /\ pkg' = "running"
                       /\ UNCHANGED <<phase, trail, failure>>
                  ELSE /\ pkg' = "failed"
                       /\ Goto("Failed", "PathError")
  /\ UNCHANGED <<envVars, other, shown, bucket, config, buildConfig, file, sourceUrl,
                 uploadCalls, dispatched, archive, report>>

\* The files each program puts into the archive.
PackagedFiles ==
  IF tool = "enhanced" THEN GlobFiles(ProjectFiles, allExcludes) ELSE CliFiles(ProjectFiles)

\* A packaging step whose promise resolves on an archiver error too.
PackageFinishResolvesOnError ==
  /\ phase = "Packaging"
  /\ pkg = "running"
  /\ \E outcome \in {"ok", "archiveError"} :
       /\ IF tool = "cli" THEN files' = files \cup {packagePath} ELSE UNCHANGED files
       /\ pkg' = IF outcome = "ok" THEN "ok" ELSE "failed"
       /\ archive' \in WalkOrders(PackagedFiles)
       /\ Goto("Uploading", "none")
  /\ UNCHANGED <<envVars, other, shown, buildIgnorePatterns,
                 clock, dirs, bucket, config, buildConfig, packagePath,
                 file, sourceUrl, buildId, uploadCalls, dispatched, allExcludes, report>>

\* The end of packaging.
\*   enhanced: 'close' resolves the promise; an archiver 'error' rejects it
\*             and the output file stays; a write error on the stream ends
\*             the process, the file stays too.
\*   cli:      tar.create resolves with the archive written, or rejects with
\*             whatever part of it was written.
PackageFinish ==
  /\ phase = "Packaging"
  /\ pkg = "running"
  /\ \E outcome \in {"ok", "archiveError", "streamError"}, partial \in BOOLEAN :
       /\ tool = "cli" => outcome # "streamError"
       /\ (tool = "enhanced" \/ outcome = "ok") => partial
       /\ IF tool = "cli" /\ partial
          THEN files' = files \cup {packagePath}
          ELSE UNCHANGED files
       /\ IF outcome = "ok"
          THEN /\ pkg' = "ok"
               /\ archive' \in WalkOrders(PackagedFiles)
               /\ Goto("Uploading", "none")
          ELSE /\ pkg' = "failed"
               /\ UNCHANGED archive
               /\ Goto("Failed", IF outcome = "archiveError"
                                  THEN "ArchiveError" ELSE "UncaughtStreamError")
  /\ UNCHANGED <<envVars, other, shown, buildIgnorePatterns,
                 clock, dirs, bucket, config, buildConfig, packagePath,
                 file, sourceUrl, buildId, uploadCalls, dispatched, allExcludes, report>>

\* The download URL each tool builds from the uploaded file's id.
SourceUrl(c, fid) ==
  Url(c["appwriteEndpoint"], c["appwriteBucket"], fid,
      IF tool = "cli" THEN c["appwriteProject"] ELSE Undef)

\* An upload step that calls createFile again after a failed call.
UploadRetries ==
  /\ phase = "Uploading"
  /\ uploadCalls < 2
  /\ uploadCalls' = uploadCalls + 1
  /\ \E stored \in BOOLEAN :
       IF stored
       THEN \E fid \in FileIds \ bucket :
              /\ bucket' = bucket \cup {fid}
              /\ file' = fid
              /\ sourceUrl' = SourceUrl(config, fid)
              /\ report' = [report EXCEPT !.fileId = fid]
              /\ Goto("Dispatching", "none")
       ELSE /\ IF uploadCalls' < 2
               THEN UNCHANGED <<phase, trail, failure>>
               ELSE Goto("Failed", "StorageError")
            /\ UNCHANGED <<bucket, file, sourceUrl, report>>
  /\ UNCHANGED <<envVars, other, shown, buildIgnorePatterns,
                 clock, files, dirs, pkg, config, buildConfig, packagePath,
                 buildId, dispatched, allExcludes, archive>>

\* Uploading: the archive is read and storage.createFile is called once; the
\* service stores it under a fresh id, or the call fails.
Upload ==
  /\ phase = "Uploading"
  /\ IF packagePath \notin files
     THEN /\ Goto("Failed", "ReadError")
          /\ UNCHANGED <<bucket, file, sourceUrl, uploadCalls, report>>
     ELSE /\ uploadCalls' = uploadCalls + 1
          /\ \E stored \in BOOLEAN :
               IF stored
               THEN \E fid \in FileIds \ bucket :
                      /\ bucket' = bucket \cup {fid}
                      /\ file' = fid
                      /\ sourceUrl' = SourceUrl(config, fid)
                      /\ report' = [report EXCEPT !.fileId = fid]
                      /\ Goto("Dispatching", "none")
               ELSE /\ Goto("Failed", "StorageError")
                    /\ UNCHANGED <<bucket, file, sourceUrl, report>>
  /\ UNCHANGED <<envVars, other, shown, buildIgnorePatterns,
                 clock, files, dirs, pkg, config, buildConfig, packagePath,
                 buildId, dispatched, allExcludes, archive>>

\* A payload filled from the default build configuration.
PayloadFromDefaults(url, id) ==
  IF tool = "enhanced"
  THEN [source_url |-> url, build_id |-> id, platform |-> "android",
        variant |-> DefaultConfig.variant,
        build_type |-> DefaultConfig.buildType,
        gradle_command |-> getGradleCommand(DefaultConfig),
        auto_increment |-> DefaultConfig.autoIncrement,
        env |-> DefaultConfig.env]
  ELSE [source_url |-> url, build_id |-> id, platform |-> CliPlatform,
        variant |-> IF Truthy(CliVariant) THEN CliVariant ELSE Str(sRelease),
        build_type |-> Undef, gradle_command |-> Undef,
        auto_increment |-> Undef, env |-> Undef]

\* The client_payload each tool sends; the commander program sends no
\* build_type, gradle_command, auto_increment or env.
Payload(url, id) ==
  IF tool = "enhanced"
  THEN [source_url |-> url, build_id |-> id, platform |-> "android",
        variant |-> buildConfig.config.variant,
        build_type |-> buildConfig.config.buildType,
        gradle_command |-> getGradleCommand(buildConfig.config),
        auto_increment |-> buildConfig.config.autoIncrement,
        env |-> buildConfig.config.env]
  ELSE [source_url |-> url, build_id |-> id, platform |-> CliPlatform,
        variant |-> IF Truthy(CliVariant) THEN CliVariant ELSE Str(sRelease),
        build_type |-> Undef, gradle_command |-> Undef,
        auto_increment |-> Undef, env |-> Undef]

\* After a successful dispatch: fs.unlinkSync(packagePath) (enhanced) or
\* fs.rmSync(tempDir, {recursive, force}) (cli).
\* A cleanup that leaves the archive in place.
CleanedFilesKeepsArchive == files
CleanedFiles ==
  IF tool = "enhanced" THEN files \ {packagePath}
  ELSE {f \in files : ~(f.prefix = packagePath.prefix /\ f.stamp = packagePath.stamp)}
CleanedDirs ==
  IF tool = "enhanced" THEN dirs
  ELSE {d \in dirs : ~(d.prefix = packagePath.prefix /\ d.stamp = packagePath.stamp)}

\* A dispatch step that posts again after a failed request.
DispatchRetries ==
  /\ phase = "Dispatching"
  /\ Len(dispatched) < 2
  /\ \E t \in clock..MaxClock, ok \in BOOLEAN :
       /\ IF tool = "enhanced"
          THEN /\ clock' = t
               /\ buildId' = toString(t)
          ELSE UNCHANGED <<clock, buildId>>
       /\ dispatched' = Append(dispatched, Payload(sourceUrl, buildId'))
       /\ report' = [report EXCEPT !.buildId =
                       IF tool = "enhanced" \/ ok THEN buildId' ELSE report.buildId]
       /\ IF ~ok
          THEN /\ Goto("Dispatching", "none")
               /\ UNCHANGED <<files, dirs>>
          ELSE /\ files' = CleanedFiles
               /\ dirs' = CleanedDirs
               /\ Goto("Done", "none")
  /\ UNCHANGED <<envVars, other, shown, buildIgnorePatterns,
                 bucket, pkg, config, buildConfig, packagePath, file,
                 sourceUrl, uploadCalls, allExcludes, archive>>

\* A dispatch step that deletes the uploaded file when the request fails.
DispatchRollsBack ==
  /\ phase = "Dispatching"
  /\ \E t \in clock..MaxClock, ok \in BOOLEAN :
       /\ IF tool = "enhanced"
          THEN /\ clock' = t
               /\ buildId' = toString(t)
          ELSE UNCHANGED <<clock, buildId>>
       /\ dispatched' = Append(dispatched, Payload(sourceUrl, buildId'))
       /\ report' = [report EXCEPT !.buildId =
                       IF tool = "enhanced" \/ ok THEN buildId' ELSE report.buildId]
       /\ IF ~ok
          THEN /\ Goto("Failed", "DispatchError")
               /\ bucket' = bucket \ {file}
               /\ UNCHANGED <<files, dirs>>
          ELSE IF tool = "enhanced" /\ packagePath \notin files
          THEN /\ Goto("Failed", "UnlinkError")
               /\ UNCHANGED <<files, dirs, bucket>>
          ELSE /\ files' = CleanedFiles
               /\ dirs' = CleanedDirs
               /\ Goto("Done", "none")
               /\ UNCHANGED bucket
  /\ UNCHANGED <<envVars, other, shown, buildIgnorePatterns,
                 pkg, config, buildConfig, packagePath, file,
                 sourceUrl, uploadCalls, allExcludes, archive>>

\* Dispatching: the payload is built (the enhanced tool reads the clock for
\* the build id here) and posted once; a non-2xx answer or a request error
\* throws. On success the local archive is removed and the run is done.
Dispatch ==
  /\ phase = "Dispatching"
  /\ \E t \in clock..MaxClock, ok \in BOOLEAN :
       /\ IF tool = "enhanced"
          THEN /\ clock' = t
               /\ buildId' = toString(t)
          ELSE UNCHANGED <<clock, buildId>>
       /\ dispatched' = Append(dispatched, Payload(sourceUrl, buildId'))
       /\ report' = [report EXCEPT !.buildId =
                       IF tool = "enhanced" \/ ok THEN buildId' ELSE report.buildId]
       /\ IF ~ok
          THEN /\ Goto("Failed", "DispatchError")
               /\ UNCHANGED <<files, dirs>>
          ELSE IF tool = "enhanced" /\ packagePath \notin files
          THEN /\ Goto("Failed", "UnlinkError")
               /\ UNCHANGED <<files, dirs>>
          ELSE /\ files' = CleanedFiles
               /\ dirs' = CleanedDirs
               /\ Goto("Done", "none")
  /\ UNCHANGED <<envVars, other, shown, buildIgnorePatterns,
                 bucket, pkg, config, buildConfig, packagePath, file,
                 sourceUrl, uploadCalls, allExcludes, archive>>

Next ==
  \/ LoadConfig
  \/ Resolve
  \/ PackageStart
  \/ PackageFinish
  \/ Upload
  \/ Dispatch

Spec == Init /\ [][Next]_vars

SpecProfiles == InitProfiles /\ [][Next]_vars

\* ------------------------------------------------- a concurrent invocation
\* The steps of the second invocation, from packaging on; it shares the
\* clock, os.tmpdir() and the storage bucket with the first.
OtherPackageStart ==
  /\ other.phase = "Packaging"
  /\ other.pkg = "idle"
  /\ \E t \in clock..MaxClock :
       /\ clock' = t
       /\ IF tool = "enhanced"
          THEN /\ files' = files \cup {EnhancedPath(t)}
               /\ other' = [other EXCEPT !.pkg = "running",
                                          !.packagePath = EnhancedPath(t)]
               /\ UNCHANGED dirs
          ELSE /\ dirs' = dirs \cup {CliTempDir(t)}
               /\ other' = [other EXCEPT !.pkg = "running", !.buildId = toString(t),
                                          !.packagePath = CliPath(t)]
               /\ UNCHANGED files
  /\ UNCHANGED <<envVars, shown, buildIgnorePatterns,
                 bucket, phase, pkg, config, buildConfig, packagePath, file,
                 sourceUrl, buildId, uploadCalls, dispatched, failure, trail,
                 allExcludes, archive, report>>

OtherPackageFinish ==
  /\ other.phase = "Packaging"
  /\ other.pkg = "running"
  /\ \E ok \in BOOLEAN :
       IF ok
       THEN /\ \E o \in WalkOrders(IF tool = "enhanced"
                                   THEN GlobFiles(ProjectFiles,
                                                  AllExcludes(IgnoreFile, excludePatterns))
                                   ELSE CliFiles(ProjectFiles)) :
                 other' = [other EXCEPT !.pkg = "ok", !.archive = o, !.phase = "Uploading"]
            /\ files' = IF tool = "cli" THEN files \cup {other.packagePath} ELSE files
       ELSE /\ other' = [other EXCEPT !.pkg = "failed", !.phase = "Failed",
                                       !.failure = "ArchiveError"]
            /\ UNCHANGED files
  /\ UNCHANGED <<envVars, shown, buildIgnorePatterns,
                 clock, dirs, bucket, phase, pkg, config, buildConfig,
                 packagePath, file, sourceUrl, buildId, uploadCalls, dispatched, failure,
                 trail, allExcludes, archive, report>>

OtherUpload ==
  /\ other.phase = "Uploading"
  /\ IF other.packagePath \notin files
     THEN /\ other' = [other EXCEPT !.phase = "Failed", !.failure = "ReadError"]
          /\ UNCHANGED bucket
     ELSE \E stored \in BOOLEAN :
            IF stored
            THEN \E fid \in FileIds \ bucket :
                   /\ bucket' = bucket \cup {fid}
                   /\ other' = [other EXCEPT !.phase = "Dispatching", !.file = fid]
            ELSE /\ other' = [other EXCEPT !.phase = "Failed", !.failure = "StorageError"]
                 /\ UNCHANGED bucket
  /\ UNCHANGED <<envVars, shown, buildIgnorePatterns,
                 clock, files, dirs, phase, pkg, config, buildConfig,
                 packagePath, file, sourceUrl, buildId, uploadCalls, dispatched, failure,
                 trail, allExcludes, archive, report>>

OtherDispatch ==
  /\ other.phase = "Dispatching"
  /\ \E t \in clock..MaxClock, ok \in BOOLEAN :
       LET id == IF tool = "enhanced" THEN toString(t) ELSE other.buildId
           mine(f) == f.prefix = other.packagePath.prefix /\ f.stamp = other.packagePath.stamp
       IN /\ clock' = IF tool = "enhanced" THEN t ELSE clock
          /\ IF ~ok
             THEN /\ other' = [other EXCEPT !.phase = "Failed", !.buildId = id,
                                             !.payloadId = id, !.failure = "DispatchError"]
                  /\ UNCHANGED <<files, dirs>>
             ELSE IF tool = "enhanced" /\ other.packagePath \notin files
             THEN /\ other' = [other EXCEPT !.phase = "Failed", !.buildId = id,
                                             !.payloadId = id, !.failure = "UnlinkError"]
                  /\ UNCHANGED <<files, dirs>>
             ELSE /\ other' = [other EXCEPT !.phase = "Done", !.buildId = id,
                                             !.payloadId = id]
                  /\ files' = IF tool = "enhanced" THEN files \ {other.packagePath}
                               ELSE {f \in files : ~mine(f)}
                  /\ dirs' = IF tool = "enhanced" THEN dirs ELSE {d \in dirs : ~mine(d)}
  /\ UNCHANGED <<envVars, shown, buildIgnorePatterns,
                 bucket, phase, pkg, config, buildConfig, packagePath, file,
                 sourceUrl, buildId, uploadCalls, dispatched, failure, trail,
                 allExcludes, archive, report>>

\* Two invocations of one program on the same project with a complete
\* configuration and no profile document.
InitRuns ==
  /\ tool \in {"enhanced", "cli"}
  /\ options = Options(NoName, NoName)
  /\ args = ArgsOf(options)
  /\ cfgFile = ConfigFile("parsed", FullConfig)
  /\ easFile = NoEasFile
  /\ rootExists = TRUE
  /\ tree = TreeSources
  /\ buildIgnore = NoBuildIgnore
  /\ excludePatterns = <<>>
  /\ clock = 0
  /\ files = {}
  /\ dirs = {}
  /\ bucket = {}
  /\ phase = "Idle"
  /\ pkg = "idle"
  /\ config = EmptyConfig
  /\ buildConfig = [set |-> FALSE, config |-> DefaultConfig]
  /\ packagePath = NoPath
  /\ file = 0
  /\ sourceUrl = NoUrl
  /\ buildId = <<>>
  /\ uploadCalls = 0
  /\ dispatched = <<>>
  /\ failure = "none"
  /\ trail = <<"Idle">>
  /\ allExcludes = <<>>
  /\ archive = <<>>
  /\ report = [buildId |-> <<>>, fileId |-> 0]
  /\ other = OtherReady
  /\ shown = NotShown
  /\ buildIgnorePatterns = <<>>

NextRuns ==
  \/ Next
  \/ OtherPackageStart
  \/ OtherPackageFinish
  \/ OtherUpload
  \/ OtherDispatch

SpecRuns == InitRuns /\ [][NextRuns]_vars

\* Packaging on its own.
NextPackage ==
  \/ PackageStart
  \/ PackageFinish

SpecPackage == InitPackage /\ [][NextPackage]_vars

\* ------------------------------------------------ the command line parser
\* Bound on the number of arguments after the command word.
MaxArgs == 3
\* Words a command line is made of.
ArgTokens == {"--profile", "-p", "--path", "preview", "-a"}
\* process.argv.slice(2): a command word, then up to MaxArgs words; or nothing.
ArgLines ==
  {<<>>} \cup
  {<<c>> \o w : c \in {"build", "help"},
                w \in UNION {[1..n -> ArgTokens] : n \in 0..MaxArgs}}
\* args[k] of the source is a[k + 1] here; beyond the end it is undefined.
ArgAt(a, k) == IF k + 1 <= Len(a) THEN a[k + 1] ELSE NoName

\* The argument loop of the build command, from index k on.
RECURSIVE ParseArguments(_, _, _)
ParseArguments(a, k, o) ==
  IF ~(k < Len(a)) THEN o
  ELSE IF ArgAt(a, k) \in {"--path", "-p"}
  THEN ParseArguments(a, k + 2, [o EXCEPT !.path = ArgAt(a, k + 1)])
  ELSE IF ArgAt(a, k) \in {"--profile", "--eas-profile"}
  THEN ParseArguments(a, k + 2, [o EXCEPT !.profile = ArgAt(a, k + 1)])
  ELSE IF ArgAt(a, k) \in {"-a", "--app", "-v", "--version"}
  THEN ParseArguments(a, k + 2, o)
  ELSE ParseArguments(a, k + 1, o)

\* The state of every variable the shell commands leave alone.
InitShell ==
  /\ easFile = NoEasFile
  /\ rootExists = TRUE
  /\ tree = TreeDeps
  /\ buildIgnore = NoBuildIgnore
  /\ excludePatterns = <<>>
  /\ clock = 0
  /\ files = {}
  /\ dirs = {}
  /\ bucket = {}
  /\ phase = "Shell"
  /\ pkg = "idle"
  /\ config = EmptyConfig
  /\ buildConfig = [set |-> FALSE, config |-> DefaultConfig]
  /\ packagePath = NoPath
  /\ file = 0
  /\ sourceUrl = NoUrl
  /\ buildId = <<>>
  /\ uploadCalls = 0
  /\ dispatched = <<>>
  /\ failure = "none"
  /\ trail = <<"Shell">>
  /\ allExcludes = <<>>
  /\ archive = <<>>
  /\ report = [buildId |-> <<>>, fileId |-> 0]
  /\ other = OtherOff
  /\ shown = NotShown
  /\ buildIgnorePatterns = <<>>

\* The enhanced tool started with any command line.
InitArgs ==
  /\ tool = "enhanced"
  /\ args \in ArgLines
  /\ options = Options(NoName, NoName)
  /\ cfgFile = ConfigFile("parsed", FullConfig)
  /\ InitShell

\* `if (command === 'build') { ...parse...; build(options) } else { usage }`
ParseCommandLine ==
  /\ phase = "Shell"
  /\ IF ArgAt(args, 0) = "build"
     THEN /\ options' = ParseArguments(args, 1, Options(NoName, "production"))
          /\ Goto("Idle", "none")
     ELSE /\ Goto("Usage", "none")
          /\ UNCHANGED options
  /\ UNCHANGED <<tool, cfgFile, easFile, rootExists, tree, buildIgnore, excludePatterns,
                 args, other, shown, buildIgnorePatterns, clock, files, dirs, bucket,
                 pkg, config, buildConfig, packagePath, file, sourceUrl, buildId,
                 uploadCalls, dispatched, allExcludes, archive, report>>

NextArgs == ParseCommandLine

SpecArgs == InitArgs /\ [][NextArgs]_vars

\* ------------------------------------- the configure and config commands
\* String.prototype.slice(-n): the last n characters, the whole string when
\* it is shorter.
sliceLast(s, n) == IF Len(s) <= n THEN s ELSE SubSeq(s, Len(s) - n + 1, Len(s))
\* Values stored or supplied for the two secrets.
sShortKey == <<"a","b","c">>
sNewKey == <<"n","e","w","k","e","y","9">>
sNewToken == <<"g","h","p","_","n","e","w","1">>
sFourToken == <<"t","o","k","4">>
sNewRepo == <<"n","/","r">>
\* ~/.build-service.json as the config commands may find it.
StoredConfigs ==
  {ConfigFile("absent", EmptyConfig), ConfigFile("unparseable", EmptyConfig),
   ConfigFile("parsed", FullConfig),
   ConfigFile("parsed", [FullConfig EXCEPT !["githubToken"] = Str(sFourToken)])}
\* The options commander hands to the configure action: an option that was
\* not given is undefined; --appwrite-key may be given an empty value.
ConfigureOptions ==
  {[EmptyConfig EXCEPT !["appwriteKey"] = k, !["githubToken"] = t, !["githubRepo"] = r] :
     k \in {Undef, Str(<<>>), Str(sShortKey), Str(sNewKey)},
     t \in {Undef, Str(sNewToken)},
     r \in {Undef, Str(sNewRepo)}}

\* `let config = {}` then loadConfig(): the file's object when it exists.
LoadedConfig == IF cfgFile.state = "parsed" THEN cfgFile.fields ELSE EmptyConfig

\* A configure step that assigns every option, given or not.
ConfigureFieldAlways(current, option) == option
\* `if (options.x) config.x = options.x`
ConfigureField(current, option) == IF Truthy(option) THEN option ELSE current

\* `'***' + value.slice(-4)` for a truthy value, undefined otherwise.
Masked(value) ==
  IF Truthy(value) THEN Str(<<"*","*","*">> \o sliceLast(value.s, 4)) ELSE Undef

\* The commander program started for a configure or a config command.
InitConfig ==
  /\ tool = "cli"
  /\ args = <<>>
  /\ options = EmptyConfig
  /\ cfgFile \in StoredConfigs
  /\ InitShell

\* build-service configure [options]: load, assign the given options, save.
\* JSON.parse throws on a file that is not JSON and nothing is written.
Configure ==
  /\ phase \in {"Shell", "Configured", "Shown", "Crashed"}
  /\ \E opts \in ConfigureOptions :
       /\ options' = opts
       /\ IF cfgFile.state = "unparseable"
          THEN /\ phase' = "Crashed"
               /\ config' = EmptyConfig
               /\ UNCHANGED cfgFile
          ELSE /\ phase' = "Configured"
               /\ config' = [f \in ConfigFields |->
                               ConfigureField(LoadedConfig[f], opts[f])]
               /\ cfgFile' = ConfigFile("parsed", config')
  /\ shown' = NotShown
  /\ UNCHANGED <<tool, easFile, rootExists, tree, buildIgnore, excludePatterns, args,
                 other, buildIgnorePatterns, clock, files, dirs, bucket, pkg,
                 buildConfig, packagePath, file, sourceUrl, buildId, uploadCalls,
                 dispatched, failure, trail, allExcludes, archive, report>>

\* build-service config: load, then print the object with the two secrets masked.
ShowConfig ==
  /\ phase \in {"Shell", "Configured", "Shown", "Crashed"}
  /\ options' = EmptyConfig
  /\ IF cfgFile.state = "unparseable"
     THEN /\ phase' = "Crashed"
          /\ config' = EmptyConfig
          /\ shown' = NotShown
     ELSE /\ phase' = "Shown"
          /\ config' = LoadedConfig
          /\ shown' = [printed |-> TRUE,
                       fields |-> [f \in ConfigFields |->
                                     IF f \in {"appwriteKey", "githubToken"}
                                     THEN Masked(LoadedConfig[f])
                                     ELSE LoadedConfig[f]]]
  /\ UNCHANGED <<tool, cfgFile, easFile, rootExists, tree, buildIgnore, excludePatterns,
                 args, other, buildIgnorePatterns, clock, files, dirs, bucket, pkg,
                 buildConfig, packagePath, file, sourceUrl, buildId, uploadCalls,
                 dispatched, failure, trail, allExcludes, archive, report>>

NextConfig ==
  \/ Configure
  \/ ShowConfig

SpecConfig == InitConfig /\ [][NextConfig]_vars

\* ----------------------------------------------------------------- claims
\* The four canonical commands, spelled out.
sAssembleRelease == <<"a","s","s","e","m","b","l","e","R","e","l","e","a","s","e">>
sAssembleDebug == <<"a","s","s","e","m","b","l","e","D","e","b","u","g">>
sBundleRelease == <<"b","u","n","d","l","e","R","e","l","e","a","s","e">>
sBundleDebug == <<"b","u","n","d","l","e","D","e","b","u","g">>

Rank(p) ==
  CASE p = "Idle" -> 0
    [] p = "Resolving" -> 1
    [] p = "Packaging" -> 2
    [] p = "Uploading" -> 3
    [] p = "Dispatching" -> 4
    [] OTHER -> 5
Ended == phase \in {"Done", "Failed"}
\* The run has left the Resolving phase it entered.
Resolved == \E i \in 1..Len(trail) : trail[i] = "Resolving" /\ i < Len(trail)

\* C1: in every run the phases are entered in the order Idle, Resolving,
\* Packaging, Uploading, Dispatching and then Done or Failed; no phase is
\* entered twice; the storage upload is called only after packaging has
\* succeeded and the CI trigger only after the upload has succeeded; Done and
\* Failed are final and exclusive, and a run that has not ended can step.
C1_PhaseOrder ==
  /\ phase = trail[Len(trail)]
  /\ \A i, j \in 1..Len(trail) : i < j => Rank(trail[i]) < Rank(trail[j])
  /\ \A i, j \in 1..Len(trail) : i # j => trail[i] # trail[j]
  /\ \A i \in 1..Len(trail) : trail[i] \in {"Done", "Failed"} => i = Len(trail)
  /\ (uploadCalls > 0 \/ phase \in {"Uploading", "Dispatching", "Done"}) => pkg = "ok"
  /\ uploadCalls <= 1
  /\ Len(dispatched) > 0 => (uploadCalls = 1 /\ file \in bucket)
  /\ Len(dispatched) <= 1
  /\ phase = "Done" => Len(dispatched) = 1
  /\ Ended \/ ENABLED Next
C1_Witness ==
  /\ tool = "enhanced"
  /\ trail = <<"Idle", "Resolving", "Packaging", "Uploading", "Dispatching", "Done">>

\* C2: when a run has ended, in Done or in Failed, the temporary archive it
\* created no longer exists.
C2_ArchiveRemovedOnExit == Ended => packagePath \notin files

C4_ConfigMissingAborts ==
  (phase # "Idle" /\ \E f \in ConfigFields : cfgFile.fields[f] = Undef) =>
    /\ phase = "Failed"
    /\ trail = <<"Idle", "Failed">>
    /\ ~buildConfig.set /\ pkg = "idle" /\ uploadCalls = 0 /\ dispatched = <<>>

\* The requested profile has no entry in a readable profile document.
NoProfileEntry ==
  \/ easFile.state \in {"absent", "unparseable"}
  \/ ~easFile.hasBuild
  \/ easFile.name # (IF options.profile = NoName THEN "production" ELSE options.profile)

\* C5: whenever the profile document is absent, not parseable, or has no
\* entry for the requested name, resolution yields exactly the default
\* BuildSpec and the run goes on into Packaging.
C5_DefaultOnMissingProfile ==
  (Resolved /\ NoProfileEntry) =>
    /\ buildConfig.set
    /\ buildConfig.config =
         [variant |-> Str(sRelease), buildType |-> Str(sApk), gradleCommand |-> Null,
          env |-> Obj(0), autoIncrement |-> Bool(FALSE), distribution |-> Str(sInternal)]
    /\ trail[3] = "Packaging"
C5_Witness ==
  /\ Resolved
  /\ easFile.state = "parsed" /\ easFile.hasBuild
  /\ easFile.name = "production" /\ options.profile = "development"
  /\ easFile.entry.developmentClient = Bool(TRUE)

\* C6: the mapping is total: for every profile entry, resolution returns a
\* BuildSpec and never turns the run into Failed.
C6_MappingTotal == Resolved => (buildConfig.set /\ trail[3] = "Packaging")

\* C7: for every BuildSpec without an explicit command the command sent is
\* the verb of the output kind followed by the title-cased variant, one of
\* assembleRelease, assembleDebug, bundleRelease, bundleDebug.
C7_DerivedCommandCanonical ==
  (tool = "enhanced" /\ dispatched # <<>> /\ buildConfig.config.gradleCommand = Null) =>
    LET c == buildConfig.config
        cmd == dispatched[1].gradle_command
    IN /\ cmd \in {Str(sAssembleRelease), Str(sAssembleDebug),
                   Str(sBundleRelease), Str(sBundleDebug)}
       /\ c.buildType = Str(sAab) => cmd \in {Str(sBundleRelease), Str(sBundleDebug)}
       /\ c.buildType = Str(sApk) => cmd \in {Str(sAssembleRelease), Str(sAssembleDebug)}
       /\ c.variant = Str(sDebug) => cmd \in {Str(sAssembleDebug), Str(sBundleDebug)}
       /\ c.variant = Str(sRelease) => cmd \in {Str(sAssembleRelease), Str(sBundleRelease)}
       /\ (easFile.entry.developmentClient = Bool(TRUE) /\ ~easFile.entry.android.present)
            => cmd = Str(sAssembleDebug)
       /\ (easFile.entry.developmentClient = Undef
           /\ easFile.entry.android = Android(TRUE, Str(sAab), Undef))
            => cmd = Str(sBundleRelease)
C7_Witness ==
  /\ dispatched # <<>>
  /\ easFile.entry.developmentClient = Bool(TRUE)
  /\ easFile.entry.android = Android(TRUE, Str(sAab), Undef)
  /\ dispatched[1].gradle_command = Str(sBundleDebug)

\* C8 as stated: whenever the profile declares android.gradleCommand, the
\* command sent is that value unchanged.
C8_ExplicitCommandVerbatim ==
  (tool = "enhanced" /\ dispatched # <<>>
   /\ easFile.entry.android.present /\ easFile.entry.android.gradleCommand # Undef) =>
    dispatched[1].gradle_command = easFile.entry.android.gradleCommand
\* C8 amended: whenever the profile declares a non-empty android.gradleCommand,
\* the command sent is that string unchanged, whatever the variant and the
\* build type are.
C8_NonEmptyExplicitCommandVerbatim ==
  (tool = "enhanced" /\ dispatched # <<>>
   /\ easFile.entry.android.present
   /\ easFile.entry.android.gradleCommand.t = "string"
   /\ Len(easFile.entry.android.gradleCommand.s) > 0) =>
    dispatched[1].gradle_command = easFile.entry.android.gradleCommand
C8_Witness ==
  /\ dispatched # <<>>
  /\ easFile.entry.developmentClient = Bool(TRUE)
  /\ easFile.entry.android = Android(TRUE, Str(sAab), Str(sCustomTask))
  /\ dispatched[1].gradle_command = Str(sCustomTask)

\* C9: the output kind of every resolved BuildSpec is apk or aab; any other
\* declared build type falls back to apk.
C9_OutputKindRecognized ==
  buildConfig.set => buildConfig.config.buildType \in {Str(sApk), Str(sAab)}

\* C10: the variant of every resolved BuildSpec is debug or release, and it is
\* debug exactly when the profile's developmentClient is the boolean true.
C10_VariantFromDevClient ==
  buildConfig.set =>
    /\ buildConfig.config.variant \in {Str(sDebug), Str(sRelease)}
    /\ buildConfig.config.variant = Str(sDebug)
         <=> easFile.entry.developmentClient = Bool(TRUE)
C10_Witness ==
  /\ buildConfig.set
  /\ easFile.entry.developmentClient = Str(sTrue)
  /\ buildConfig.config.variant = Str(sRelease)

\* C11: the BuildSpec's auto-increment field is the boolean truthiness of the
\* profile's autoIncrement value: true for every truthy value, boolean or
\* not, false for every falsy or absent one.
C11_AutoIncrementTruthiness ==
  buildConfig.set =>
    buildConfig.config.autoIncrement = Bool(Truthy(easFile.entry.autoIncrement))

\* Path.join of segments, and the directories a file lies beneath.
RECURSIVE JoinPath(_)
JoinPath(segs) ==
  IF Len(segs) = 1 THEN segs[1] ELSE segs[1] \o <<"/">> \o JoinPath(Tail(segs))
DirsAbove(f) ==
  {JoinPath(SubSeq(split(f, "/"), 1, k)) : k \in 1..(Len(split(f, "/")) - 1)}
Entries == {archive[i] : i \in 1..Len(archive)}

\* C12: whenever .buildignore exists, the effective exclusion set is the
\* patterns parsed from it followed by the caller's patterns, with no
\* built-in pattern added, also when the file yields no pattern.
C12_OverrideReplacesDefaults ==
  (tool = "enhanced" /\ pkg \in {"running", "ok"} /\ buildIgnore.exists) =>
    allExcludes = ParseBuildIgnore(buildIgnore.content) \o excludePatterns

\* C13: no file beneath a directory that a pattern of the effective ignore
\* set matches is in the archive.
C13_IgnoredDirectoryPruned ==
  (tool = "enhanced" /\ pkg = "ok") =>
    \A f \in tree :
      (\E d \in DirsAbove(f) : Ignored(d, allExcludes)) => f \notin Entries

\* C16: in a run the storage upload is called at most once and the CI
\* trigger at most once; once either has failed neither is called again.
C16_NoRetry ==
  /\ uploadCalls <= 1
  /\ Len(dispatched) <= 1
  /\ failure = "StorageError" => (phase = "Failed" /\ uploadCalls = 1 /\ dispatched = <<>>)
  /\ failure = "DispatchError" => (phase = "Failed" /\ uploadCalls = 1 /\ Len(dispatched) = 1)
C16_Witness == failure = "StorageError" /\ uploadCalls = 1

\* C17: when the CI trigger fails after a successful upload the run is
\* Failed, has never been Done, and the uploaded artifact is still stored.
C17_DispatchFailureNoRollback ==
  failure = "DispatchError" =>
    /\ phase = "Failed"
    /\ \A i \in 1..Len(trail) : trail[i] # "Done"
    /\ file # 0 /\ file \in bucket
C17_Witness == failure = "DispatchError" /\ file \in bucket

\* C18: a run is Done only after the upload and the trigger succeeded; then
\* the local archive is deleted and the run has printed the build id of the
\* payload and the file id the upload returned.
C18_DoneReportsIds ==
  phase = "Done" =>
    /\ uploadCalls = 1 /\ file \in bucket
    /\ Len(dispatched) = 1
    /\ dispatched[1].source_url.fileId = file
    /\ packagePath \notin files
    /\ report.buildId # <<>> /\ report.buildId = dispatched[1].build_id
    /\ report.fileId = file
C18_Witness == phase = "Done" /\ tool = "cli" /\ report.fileId = 1

\* C19: if the archive cannot be written or the archiver reports an error,
\* packaging fails and no partial archive is left at the output path.
C19_NoPartialArchive ==
  (tool = "enhanced" /\ pkg = "failed") => packagePath \notin files

\* C20: with no .buildignore and no caller patterns, no file under
\* node_modules, .git, android or ios at the project root is in the archive.
C20_DefaultsExcludeNativeAndDeps ==
  (pkg = "ok" /\ ~buildIgnore.exists /\ excludePatterns = <<>>) =>
    \A f \in Entries :
      split(f, "/")[1] \notin
        {<<"n","o","d","e","_","m","o","d","u","l","e","s">>, <<".","g","i","t">>, <<"a","n","d","r","o","i","d">>, <<"i","o","s">>}

C15_RunsDoNotCollide ==
  /\ (pkg \in {"running", "ok"} /\ other.pkg \in {"running", "ok"})
       => packagePath # other.packagePath
  /\ (dispatched # <<>> /\ other.payloadId # <<>>)
       => dispatched[1].build_id # other.payloadId
  /\ failure \notin {"ReadError", "UnlinkError"}
  /\ other.failure \notin {"ReadError", "UnlinkError"}

\* C21: `build -p <profile>` selects the profile as `build --profile
\* <profile>` does: options.profile is the name, options.path is untouched.
C21_ShortFlagSelectsProfile ==
  (phase = "Idle" /\ args = <<"build", "-p", "preview">>) =>
    options = Options(NoName, "preview")

\* The text `whole` occurs in the text `out`.
Occurs(whole, out) ==
  \E k \in 0..(Len(out) - Len(whole)) : SubSeq(out, k + 1, k + Len(whole)) = whole

\* C22: the config command never prints the complete API key or the
\* complete token, however short the stored value is.
C22_SecretsNeverShownWhole ==
  (phase = "Shown" /\ shown.printed) =>
    \A f \in {"appwriteKey", "githubToken"} :
      Truthy(cfgFile.fields[f]) => ~Occurs(cfgFile.fields[f].s, shown.fields[f].s)

\* C27: a configure call changes exactly the fields whose option was given a
\* non-empty value; every other stored field keeps its value.
C27_ConfigureFrame ==
  [][phase' = "Configured" =>
       \A f \in ConfigFields :
         cfgFile'.fields[f] = IF Truthy(options'[f]) THEN options'[f] ELSE LoadedConfig[f]]_vars
C27_Witness ==
  /\ phase = "Configured"
  /\ options["appwriteKey"] = Str(sNewKey)
  /\ ~Truthy(options["githubToken"])
  /\ cfgFile.fields["appwriteKey"] = Str(sNewKey)
  /\ cfgFile.fields["githubToken"] = Str(sToken)
  /\ cfgFile.fields["githubRepo"] = Str(sRepo)

C24_CallerPatternsAppended ==
  (tool = "enhanced" /\ pkg # "idle") =>
    LET n == Len(allExcludes) - Len(excludePatterns)
    IN /\ n >= 0
       /\ SubSeq(allExcludes, n + 1, Len(allExcludes)) = excludePatterns
       /\ SubSeq(allExcludes, 1, n) \in {buildIgnorePatterns, BuiltinExcludes}
C24_Witness ==
  /\ tool = "enhanced"
  /\ pkg = "running"
  /\ buildIgnore = BuildIgnore(TRUE, ignLogs)
  /\ excludePatterns = <<pSecretGlob>>
  /\ Len(allExcludes) = 3
  /\ allExcludes[3] = pSecretGlob

\* The lines of a text that are kept: not blank and not a comment once trimmed.
KeptLines(content) ==
  {k \in 1..Len(split(content, "\n")) :
     /\ trim(split(content, "\n")[k]) # <<>>
     /\ trim(split(content, "\n")[k])[1] # "#"}

\* C25: the patterns parsed from .buildignore are, in file order, the trimmed
\* lines that are neither empty nor comments, each one that ends with '/'
\* followed by '**' and every other one unchanged.
C25_IgnoreFileParsing ==
  (tool = "enhanced" /\ pkg # "idle" /\ buildIgnore.exists) =>
    /\ Len(buildIgnorePatterns) = Cardinality(KeptLines(buildIgnore.content))
    /\ \A k \in KeptLines(buildIgnore.content) :
         LET line == trim(split(buildIgnore.content, "\n")[k])
             at == Cardinality({m \in KeptLines(buildIgnore.content) : m <= k})
         IN buildIgnorePatterns[at] =
              (IF line[Len(line)] = "/" THEN line \o <<"*", "*">> ELSE line)
C25_Witness ==
  /\ tool = "enhanced"
  /\ pkg = "running"
  /\ buildIgnore = BuildIgnore(TRUE, ignLogs)
  /\ buildIgnorePatterns =
       <<<<"*",".","l","o","g">>,
         <<"n","o","d","e","_","m","o","d","u","l","e","s","/","*","*">>>>

\* C26: the payload sent in a run names the file this run uploaded, under the
\* configured endpoint and bucket, and carries the fields of the build
\* configuration resolved in this run with the command derived from it.
C26_PayloadFromThisRun ==
  \A k \in 1..Len(dispatched) :
    /\ file # 0
    /\ file \in bucket
    /\ dispatched[k].source_url.fileId = file
    /\ dispatched[k].source_url.endpoint = config["appwriteEndpoint"]
    /\ dispatched[k].source_url.bucket = config["appwriteBucket"]
    /\ tool = "enhanced" =>
         /\ buildConfig.set
         /\ dispatched[k].variant = buildConfig.config.variant
         /\ dispatched[k].build_type = buildConfig.config.buildType
         /\ dispatched[k].auto_increment = buildConfig.config.autoIncrement
         /\ dispatched[k].env = buildConfig.config.env
         /\ dispatched[k].gradle_command = getGradleCommand(buildConfig.config)
C26_Witness ==
  /\ tool = "enhanced"
  /\ dispatched # <<>>
  /\ dispatched[1].source_url.fileId = 2
  /\ buildConfig.config.buildType = Str(sAab)
  /\ dispatched[1].gradle_command = Str(sBundleRelease)

====
